---- MODULE Spec2Model ----
(* A model of pgsql/prestogres.py: the PL/Python functions that materialize  *)
(* query results as temporary tables and mirror the remote catalog into the  *)
(* local PostgreSQL catalog inside a subtransaction that is rolled back.     *)
EXTENDS Integers, Sequences, FiniteSets, TLC

VARIABLES
  now,                   \* the value time.time() returns
  SchemaCacheEntry,      \* the module-level SchemaCache object
  OidToTypeNameMapping,  \* the module-level dict oid -> type name
  db,                    \* the local database session: catalog, roles, temp tables
  pc,                    \* position of the running call
  frame,                 \* local variables of the running call
  subxact,               \* the state saved by subxact.enter(), if a scope is open
  log,                   \* what the running call has executed so far, in order
  hist,                  \* history of the cache epochs (not program state)
  harness                \* direct application of a helper function to an input

vars == <<now, SchemaCacheEntry, OidToTypeNameMapping, db, pc, frame, subxact, log,
          hist, harness>>

\* Python's None and a bound value, kept apart from every value of the model
None == <<>>
Some(x) == <<x>>
Get(o) == o[1]

-----------------------------------------------------------------------------
(* Bounds of the model *)

\* the clock stops advancing here
MaxTime == 130
\* create_schema_holders / create_table_holders are called with 1..MaxHolders
MaxHolders == 1
\* number of calls of run_system_catalog_as_temp_table in one behaviour
MaxCalls == 3
\* longest column-name sequence given to _rename_duplicated_column_names
MaxNames == 4
\* longest row source and largest batch size given to _batch_insert
MaxRows == 7
MaxBatch == 3
\* largest number of discovery rows given to the plan when it is applied alone
MaxPlanRows == 3
\* largest number of calls of _load_oid_to_type_name_mapping in a row
MaxLoads == 3

-----------------------------------------------------------------------------
(* Program constants *)

PG_NAMEDATALEN == 64
\* "cache expires after 60 seconds"
CacheTTL == 60
\* the batch size both orchestrators pass to _batch_insert
InsertBatchSize == 10

-----------------------------------------------------------------------------
(* Sequence helpers *)

Range(s) == {s[i] : i \in DOMAIN s}

RECURSIVE Flatten(_)
\* [item for sublist in batch for item in sublist]
Flatten(batch) ==
  IF batch = <<>> THEN <<>> ELSE Head(batch) \o Flatten(Tail(batch))

Min(a, b) == IF a <= b THEN a ELSE b

\* zip(a, b): pairs up to the shorter of the two
Zip(a, b) == [i \in 1..Min(Len(a), Len(b)) |-> <<a[i], b[i]>>]

-----------------------------------------------------------------------------
(* Type mapping *)

_pg_result_type(presto_type) ==
  IF presto_type = "varchar" THEN "varchar(255)"
  ELSE IF presto_type = "varbinary" THEN "bytea"
  ELSE IF presto_type = "double" THEN "double precision"
  ELSE presto_type

_pg_table_type(presto_type) ==
  IF presto_type = "varchar" THEN "varchar(255)"
  ELSE IF presto_type = "varbinary" THEN "bytea"
  ELSE IF presto_type = "double" THEN "double precision"
  ELSE presto_type

_pg_convert_infoschema_type(infoschema_type) ==
  IF infoschema_type = "sql_identifier" THEN "name"
  ELSE IF infoschema_type = "cardinal_number" THEN "int"
  ELSE IF infoschema_type = "character_data" THEN "name"
  ELSE IF infoschema_type = "yes_or_no" THEN "text"
  ELSE infoschema_type

-----------------------------------------------------------------------------
(* _rename_duplicated_column_names *)

\* appends the marker once, whether or not the name is then new
AppendMarkerOnce(name, used_names) ==
  IF name \in used_names THEN name \o "_" ELSE name

RECURSIVE AppendMarker(_, _)
\* while name in used_names: name += "_"
AppendMarker(name, used_names) ==
  IF name \in used_names THEN AppendMarker(name \o "_", used_names) ELSE name

RECURSIVE RenameLoop(_, _, _, _, _)
\* the for loop: i is the position of original_name in column_names
RenameLoop(column_names, i, used_names, renamed, warnings) ==
  IF i > Len(column_names) THEN [renamed |-> renamed, warnings |-> warnings]
  ELSE LET original_name == column_names[i]
           name == AppendMarker(original_name, used_names)
       IN RenameLoop(column_names, i + 1, used_names \cup {name},
                     Append(renamed, name),
                     IF name # original_name
                       THEN Append(warnings, <<original_name, name>>)
                       ELSE warnings)

RenameWithWarnings(column_names) == RenameLoop(column_names, 1, {}, <<>>, <<>>)

_rename_duplicated_column_names(column_names) ==
  RenameWithWarnings(column_names).renamed

-----------------------------------------------------------------------------
(* SQL builders: a statement is a record of what its text says *)

_build_create_temp_table_sql(table_name, column_names, column_types) ==
  [op |-> "create temporary table", table |-> table_name,
   columns |-> Zip(column_names, column_types)]

_build_alter_table_holder_sql(schema_name, table_name, column_names, column_types, not_nulls) ==
  [op |-> "alter table add", schema |-> schema_name, table |-> table_name,
   adds |-> [i \in 1..Min(Len(column_names), Min(Len(column_types), Len(not_nulls))) |->
               [name |-> column_names[i], type |-> column_types[i],
                not_null |-> not_nulls[i]]]]

_build_insert_into_sql(table_name, column_names) ==
  [op |-> "insert into", table |-> table_name, columns |-> column_names]

-----------------------------------------------------------------------------
(* _plan_batch and _batch_insert *)

\* every value tuple numbered from $1
PlanValuesFromOne(column_types, j, index, acc) ==
  [tuple |-> [k \in DOMAIN column_types |-> [index |-> k, type |-> column_types[k]]],
   index |-> index]

RECURSIVE PlanValues(_, _, _, _)
\* the inner loop over column_types: one "$index::column_type" per column
PlanValues(column_types, j, index, acc) ==
  IF j > Len(column_types) THEN [tuple |-> acc, index |-> index]
  ELSE PlanValues(column_types, j + 1, index + 1,
                  Append(acc, [index |-> index, type |-> column_types[j]]))

RECURSIVE PlanTuples(_, _, _, _, _)
\* the outer loop "for i in range(batch_size)"
PlanTuples(column_types, batch_size, i, index, acc) ==
  IF i >= batch_size THEN acc
  ELSE LET v == PlanValues(column_types, 1, index, <<>>)
       IN PlanTuples(column_types, batch_size, i + 1, v.index, Append(acc, v.tuple))

\* column_types * batch_size
Repeat(column_types, batch_size) ==
  [k \in 1..(Len(column_types) * batch_size) |->
     column_types[((k - 1) % Len(column_types)) + 1]]

_plan_batch(insert_sql, column_types, batch_size) ==
  [insert_sql |-> insert_sql,
   tuples |-> PlanTuples(column_types, batch_size, 0, 1, <<>>),
   argtypes |-> Repeat(column_types, batch_size)]

\* a batch is executed one row late
BatchIsFullLate(batch_len, batch_size) == batch_len > batch_size

\* "if batch_len >= batch_size"
BatchIsFull(batch_len, batch_size) == batch_len >= batch_size

\* plpy.execute(plan, args) raises when the database rejects the statement (the
\* fail_at-th execution of the load; 0: none) or when the number of arguments is
\* not the number of parameters the plan was prepared with
ExecuteRaises(plan, args, nth, fail_at) ==
  nth = fail_at \/ Len(args) # Len(plan.argtypes)

\* the rows a prepared multi-row insert stores: tuple k takes the arguments its
\* placeholders $index name
InsertedRows(execution) ==
  [k \in 1..Len(execution.plan.tuples) |->
     [j \in 1..Len(execution.plan.tuples[k]) |->
        execution.args[execution.plan.tuples[k][j].index]]]

RECURSIVE BatchLoop(_, _, _, _, _)
\* "for row in rows", then "if batch": c holds the arguments, i the position in
\* rows; an execution that raises ends the load
BatchLoop(c, i, batch, full_batch_plan, executions) ==
  IF i > Len(c.rows) THEN
    IF batch # <<>> THEN
      LET plan == _plan_batch(c.insert_sql, c.column_types, Len(batch))
          args == Flatten(batch)
      IN IF ExecuteRaises(plan, args, Len(executions) + 1, c.fail_at)
           THEN [executions |-> executions, raised |-> TRUE]
           ELSE [executions |-> Append(executions, [plan |-> plan, args |-> args]),
                 raised |-> FALSE]
    ELSE [executions |-> executions, raised |-> FALSE]
  ELSE
    LET batch1 == Append(batch, c.rows[i])
        batch_len == Len(batch1)
    IN IF BatchIsFull(batch_len, c.batch_size) THEN
         LET plan == IF full_batch_plan = None
                       THEN Some(_plan_batch(c.insert_sql, c.column_types, batch_len))
                       ELSE full_batch_plan
             args == Flatten(batch1)
         IN IF ExecuteRaises(Get(plan), args, Len(executions) + 1, c.fail_at)
              THEN [executions |-> executions, raised |-> TRUE]
              ELSE BatchLoop(c, i + 1, <<>>, plan,
                             Append(executions, [plan |-> Get(plan), args |-> args]))
       ELSE BatchLoop(c, i + 1, batch1, full_batch_plan, executions)

_batch_insert(insert_sql, batch_size, column_types, rows, fail_at) ==
  BatchLoop([insert_sql |-> insert_sql, batch_size |-> batch_size,
             column_types |-> column_types, rows |-> rows, fail_at |-> fail_at],
            1, <<>>, None, <<>>)

-----------------------------------------------------------------------------
(* Names: the identifiers the remote catalog and the local database use *)

\* names of 64 characters: one more than PostgreSQL keeps
LongSchema == "warehouse_schema_with_a_name_of_sixty_four_characters_xxxxxxxxxx"
LongTable == "fact_table_with_a_name_of_sixty_four_characters_xxxxxxxxxxxxxxxx"
LongColumn == "measure_column_with_a_name_of_sixty_four_characters_xxxxxxxxxxxx"

\* the names sorted() compares, in the order Python's string comparison gives
NameOrder ==
  <<"emp", "hr", "information_schema", "items", "orders", "public", "sales", "sys">>

Rank(name) == CHOOSE i \in DOMAIN NameOrder : NameOrder[i] = name

RECURSIVE Sorted(_)
\* sorted(names): ascending
Sorted(names) ==
  IF names = {} THEN <<>>
  ELSE LET first == CHOOSE n \in names : \A m \in names : Rank(n) <= Rank(m)
       IN <<first>> \o Sorted(names \ {first})

SchemaHolder(i) == "prestogres_catalog_schema_holder_" \o ToString(i)
TableHolder(i) == "table_holder_" \o ToString(i)

\* n.nspname like 'prestogres_catalog_schema_holder_%'
IsSchemaHolder(name) == \E i \in 0..(MaxHolders + 1) : name = SchemaHolder(i)

\* n.nspname not in ('prestogres_catalog', 'pg_catalog', 'information_schema',
\* 'public')
ReservedSchemas == {"prestogres_catalog", "pg_catalog", "information_schema", "public"}

-----------------------------------------------------------------------------
(* The local database: what the statements the code executes do to it *)

\* The session before the extension is provisioned: the reserved schemas, a
\* schema left behind by unrelated activity, the superuser role.
InitialDb ==
  [schemas |-> ReservedSchemas \cup {"old_mirror"},
   tables |-> {[schema |-> "old_mirror", name |-> "orders", columns |-> <<>>,
                acl |-> {}]},
   datname |-> "postgres",
   role |-> "postgres",
   roles |-> {"postgres"},
   pg_type |-> (19 :> "name") @@ (25 :> "text") @@ (13087 :> "sql_identifier"),
   temp |-> {}]

Ok(d) == [ok |-> TRUE, db |-> d]
Fail(d) == [ok |-> FALSE, db |-> d]

\* drop schema s cascade
PgDropSchemaCascade(d, s) ==
  IF s \notin d.schemas THEN Fail(d)
  ELSE Ok([d EXCEPT !.schemas = @ \ {s},
                    !.tables = {t \in @ : t.schema # s}])

\* drop schema if exists s cascade
PgDropSchemaIfExistsCascade(d, s) ==
  Ok([d EXCEPT !.schemas = @ \ {s}, !.tables = {t \in @ : t.schema # s}])

\* drop schema s: refused while the schema holds a table
PgDropSchema(d, s) ==
  IF s \notin d.schemas \/ \E t \in d.tables : t.schema = s THEN Fail(d)
  ELSE Ok([d EXCEPT !.schemas = @ \ {s}])

\* create schema s
PgCreateSchema(d, s) ==
  IF s \in d.schemas THEN Fail(d) ELSE Ok([d EXCEPT !.schemas = @ \cup {s}])

\* create table s.t ()
PgCreateTable(d, s, t) ==
  IF s \notin d.schemas \/ \E x \in d.tables : x.schema = s /\ x.name = t THEN Fail(d)
  ELSE Ok([d EXCEPT !.tables = @ \cup {[schema |-> s, name |-> t, columns |-> <<>>,
                                        acl |-> {}]}])

\* alter schema from rename to to
PgRenameSchema(d, from, to) ==
  IF from \notin d.schemas \/ to \in d.schemas THEN Fail(d)
  ELSE Ok([d EXCEPT !.schemas = (@ \ {from}) \cup {to},
                    !.tables = {IF t.schema = from THEN [t EXCEPT !.schema = to] ELSE t
                                : t \in @}])

\* do $$ begin if not exists (... rolname = r) then create role r with login ...
PgCreateRoleIfAbsent(d, r) == Ok([d EXCEPT !.roles = @ \cup {r}])

\* grant select on all tables in schema s to r
PgGrantSelectAll(d, s, r) ==
  IF s \notin d.schemas \/ r \notin d.roles THEN Fail(d)
  ELSE Ok([d EXCEPT !.tables = {IF t.schema = s THEN [t EXCEPT !.acl = @ \cup {r}] ELSE t
                                : t \in @}])

\* alter table from_schema.t set schema to_schema
PgSetSchema(d, from_schema, t, to_schema) ==
  IF \/ ~ \E x \in d.tables : x.schema = from_schema /\ x.name = t
     \/ to_schema \notin d.schemas
     \/ \E x \in d.tables : x.schema = to_schema /\ x.name = t
  THEN Fail(d)
  ELSE Ok([d EXCEPT !.tables = {IF x.schema = from_schema /\ x.name = t
                                  THEN [x EXCEPT !.schema = to_schema] ELSE x
                                : x \in @}])

\* alter table s.from rename to to
PgRenameTable(d, s, from, to) ==
  IF \/ ~ \E x \in d.tables : x.schema = s /\ x.name = from
     \/ \E x \in d.tables : x.schema = s /\ x.name = to
  THEN Fail(d)
  ELSE Ok([d EXCEPT !.tables = {IF x.schema = s /\ x.name = from
                                  THEN [x EXCEPT !.name = to] ELSE x
                                : x \in @}])

\* alter table s.t add c1 type1 [not null], add c2 ...: a syntax error without
\* any add clause, refused for a column name the table has or that is given twice
PgAddColumns(d, s, t, adds) ==
  IF \/ adds = <<>>
     \/ ~ \E x \in d.tables : x.schema = s /\ x.name = t
     \/ \E i, j \in DOMAIN adds : i # j /\ adds[i].name = adds[j].name
  THEN Fail(d)
  ELSE Ok([d EXCEPT !.tables = {IF x.schema = s /\ x.name = t
                                  THEN [x EXCEPT !.columns = @ \o adds] ELSE x
                                : x \in @}])

\* update pg_database set datname = name where datname = current_database()
PgUpdateDatname(d, name) == Ok([d EXCEPT !.datname = name])

\* set role to r
PgSetRole(d, r) ==
  IF r \notin d.roles THEN Fail(d) ELSE Ok([d EXCEPT !.role = r])

\* drop table if exists t (a temporary table of the session)
PgDropTableIfExists(d, t) == Ok([d EXCEPT !.temp = {x \in @ : x.name # t}])

\* create temporary table t (columns): refused when t exists or a column name
\* is given twice
PgCreateTempTable(d, create_sql) ==
  IF \/ \E x \in d.temp : x.name = create_sql.table
     \/ \E i, j \in DOMAIN create_sql.columns :
          i # j /\ create_sql.columns[i][1] = create_sql.columns[j][1]
  THEN Fail(d)
  ELSE Ok([d EXCEPT !.temp = @ \cup {[name |-> create_sql.table,
                                      columns |-> create_sql.columns,
                                      rows |-> <<>>]}])

\* the executions of a batch insert, each adding its rows to the table
PgInsertExecutions(d, t, executions) ==
  [d EXCEPT !.temp = {IF x.name = t
                        THEN [x EXCEPT !.rows = @ \o Flatten([k \in DOMAIN executions |->
                                                        InsertedRows(executions[k])])]
                        ELSE x
                      : x \in @}]

\* one statement of the cached plan
PgExecute(d, st) ==
  CASE st.op = "create role if absent" -> PgCreateRoleIfAbsent(d, st.role)
    [] st.op = "grant select" -> PgGrantSelectAll(d, st.schema, st.role)
    [] st.op = "alter table set schema" ->
         PgSetSchema(d, "prestogres_catalog", TableHolder(st.table_holder_id), st.schema)
    [] st.op = "alter table rename" ->
         PgRenameTable(d, st.schema, TableHolder(st.table_holder_id), st.table)
    [] st.op = "alter table add" -> PgAddColumns(d, st.schema, st.table, st.adds)

-----------------------------------------------------------------------------
(* SchemaCache *)

\* A dict is a function on its keys; this is {}
EmptyDict == [x \in {} |-> x]

\* SchemaCache.__init__
NewSchemaCache ==
  [server |-> None, user |-> None, catalog |-> None, schema |-> None,
   schema_names |-> None, statements |-> None, expire_time |-> None,
   query_cache |-> EmptyDict]

\* an entry still counts at the very time it expires
NotExpiredInclusive(current_time, expire_time) == current_time <= expire_time

\* "current_time < self.expire_time"
NotExpired(current_time, expire_time) == current_time < expire_time

is_cached(self, server, user, catalog, schema, current_time) ==
  /\ self.server = Some(server)
  /\ self.user = Some(user)
  /\ self.catalog = Some(catalog)
  /\ self.schema = Some(schema)
  /\ self.statements # None
  /\ NotExpired(current_time, Get(self.expire_time))

\* a repopulation that keeps the nested query cache
set_cache_keeping(self, server, user, catalog, schema, names, stmts, expire_time) ==
  [server |-> Some(server), user |-> Some(user), catalog |-> Some(catalog),
   schema |-> Some(schema), schema_names |-> Some(names), statements |-> Some(stmts),
   expire_time |-> Some(expire_time), query_cache |-> self.query_cache]

set_cache(self, server, user, catalog, schema, names, stmts, expire_time) ==
  [server |-> Some(server), user |-> Some(user), catalog |-> Some(catalog),
   schema |-> Some(schema), schema_names |-> Some(names), statements |-> Some(stmts),
   expire_time |-> Some(expire_time), query_cache |-> EmptyDict]

\* an entry that expires as it is stored
ExpireTimeNow(current_time) == current_time

\* "time.time() + 60"
ExpireTime(current_time) == current_time + CacheTTL

\* dict.get(key) and dict[key] = value
DictGet(dict, key) == IF key \in DOMAIN dict THEN Some(dict[key]) ELSE None

DictSet(dict, key, value) == (key :> value) @@ dict

-----------------------------------------------------------------------------
(* Discover: lines 277-309, the rows of information_schema.columns grouped into *)
(* schemas[schema_name][table_name] = [Column, ...]                             *)

\* "len(name) > PG_NAMEDATALEN - 1"
TooLong(name) == Len(name) > PG_NAMEDATALEN - 1

\* d.setdefault(key, default) as the dict it leaves
SetDefault(dict, key, default) ==
  IF key \in DOMAIN dict THEN dict ELSE (key :> default) @@ dict

RECURSIVE GroupRows(_, _, _, _)
\* "for row in rows": returns the dict schemas, the warnings, and the value the
\* local variable schema_name is left with
GroupRows(rows, i, schemas, skipped) ==
  IF i > Len(rows)
    THEN [schemas |-> schemas, skipped |-> skipped,
          schema_name |-> IF rows = <<>> THEN None ELSE Some(rows[Len(rows)][1])]
  ELSE
    LET schema_name == rows[i][1]
        table_name == rows[i][2]
        column_name == rows[i][3]
        is_nullable == rows[i][4]
        column_type == rows[i][5]
    IN IF TooLong(schema_name)
         THEN GroupRows(rows, i + 1, schemas, Append(skipped, "schema"))
       ELSE LET schemas1 == SetDefault(schemas, schema_name, EmptyDict)
                tables == schemas1[schema_name]
            IN IF TooLong(table_name)
                 THEN GroupRows(rows, i + 1, schemas1, Append(skipped, "table"))
               ELSE LET tables1 == SetDefault(tables, table_name, <<>>)
                        schemas2 == [schemas1 EXCEPT ![schema_name] = tables1]
                    IN IF TooLong(column_name)
                         THEN GroupRows(rows, i + 1, schemas2, Append(skipped, "column"))
                       ELSE GroupRows(rows, i + 1,
                              [schemas2 EXCEPT ![schema_name][table_name] =
                                 Append(@, [name |-> column_name, type |-> column_type,
                                            nullable |-> is_nullable])],
                              skipped)

-----------------------------------------------------------------------------
(* Plan: lines 311-353 *)

\* 'schema_name == "sys" or schema_name == "information_schema"'
IsSystemSchema(schema_name) ==
  schema_name = "sys" \/ schema_name = "information_schema"

\* lines 334-351: the three statements of one table
TableStatements(schema_name, table_name, columns, table_holder_id) ==
  LET column_names == [i \in DOMAIN columns |-> columns[i].name]
      column_types == [i \in DOMAIN columns |-> _pg_table_type(columns[i].type)]
      not_nulls == [i \in DOMAIN columns |-> ~ columns[i].nullable]
  IN << [op |-> "alter table set schema", table_holder_id |-> table_holder_id,
         schema |-> schema_name],
        [op |-> "alter table rename", schema |-> schema_name,
         table_holder_id |-> table_holder_id, table |-> table_name],
        _build_alter_table_holder_sql(schema_name, table_name, column_names,
                                      column_types, not_nulls) >>

RECURSIVE PlanTables(_, _, _, _, _, _)
\* "for table_name, columns in sorted(tables.items(), ...)"
PlanTables(schema_name, tables, order, k, table_holder_id, statements) ==
  IF k > Len(order)
    THEN [statements |-> statements, table_holder_id |-> table_holder_id]
  ELSE PlanTables(schema_name, tables, order, k + 1, table_holder_id + 1,
                  statements \o TableStatements(schema_name, order[k], tables[order[k]],
                                                table_holder_id))

RECURSIVE PlanSchemas(_, _, _, _, _, _)
\* "for schema_name, tables in sorted(schemas.items(), ...)"
PlanSchemas(schemas, order, k, table_holder_id, schema_names, statements) ==
  IF k > Len(order)
    THEN [schema_names |-> schema_names, statements |-> statements]
  ELSE IF IsSystemSchema(order[k])
    THEN PlanSchemas(schemas, order, k + 1, table_holder_id, schema_names, statements)
  ELSE LET t == PlanTables(order[k], schemas[order[k]],
                           Sorted(DOMAIN schemas[order[k]]), 1, table_holder_id,
                           statements)
       IN PlanSchemas(schemas, order, k + 1, t.table_holder_id,
                      Append(schema_names, order[k]), t.statements)

\* lines 315-322: the role and the grant
RoleStatements(login_user) ==
  << [op |-> "create role if absent", role |-> login_user],
     [op |-> "grant select", schema |-> "prestogres_catalog", role |-> login_user] >>

\* the schemas visited in descending order of their names
SchemaOrderDescending(schemas) ==
  LET ascending == Sorted(DOMAIN schemas)
  IN [k \in DOMAIN ascending |-> ascending[Len(ascending) + 1 - k]]

\* the order in which line 326 visits the schemas
SchemaOrder(schemas) == Sorted(DOMAIN schemas)

\* lines 277-353: schema_names, statements and the value of the local variable
\* schema_name when the else branch of line 271 is left
plan_catalog(rows, login_user) ==
  LET g == GroupRows(rows, 1, EmptyDict, <<>>)
      order == SchemaOrder(g.schemas)
      p == PlanSchemas(g.schemas, order, 1, 0, <<>>, RoleStatements(login_user))
  IN [schema_names |-> p.schema_names, statements |-> p.statements,
      skipped |-> g.skipped,
      schema_name |-> IF order # <<>> THEN Some(order[Len(order)]) ELSE g.schema_name]

-----------------------------------------------------------------------------
(* Apply: the loops of lines 371-402 *)

\* the rows of the cursor of lines 373-377
StaleSchemas(d) ==
  {s \in d.schemas : s \notin ReservedSchemas /\ ~ IsSchemaHolder(s)}

RECURSIVE DropStale(_, _)
\* lines 377-378
DropStale(d, stale) ==
  IF stale = {} THEN d
  ELSE LET s == CHOOSE x \in stale : TRUE
       IN DropStale(PgDropSchemaCascade(d, s).db, stale \ {s})

RECURSIVE RenameHoldersUntilFailure(_, _, _, _, _)
\* a rename loop that the first rename that raises ends
RenameHoldersUntilFailure(d, names, i, schema_holder_id, renamed) ==
  IF i > Len(names) THEN [db |-> d, renamed |-> renamed]
  ELSE LET r == PgRenameSchema(d, SchemaHolder(schema_holder_id), names[i])
       IN IF r.ok
            THEN RenameHoldersUntilFailure(r.db, names, i + 1, schema_holder_id + 1,
                                           Append(renamed, TRUE))
            ELSE [db |-> d, renamed |-> Append(renamed, FALSE)]

RECURSIVE RenameHolders(_, _, _, _, _)
\* lines 381-389: a rename that raises is passed over and leaves
\* schema_holder_id as it is
RenameHolders(d, names, i, schema_holder_id, renamed) ==
  IF i > Len(names) THEN [db |-> d, renamed |-> renamed]
  ELSE LET r == PgRenameSchema(d, SchemaHolder(schema_holder_id), names[i])
       IN IF r.ok
            THEN RenameHolders(r.db, names, i + 1, schema_holder_id + 1,
                               Append(renamed, TRUE))
            ELSE RenameHolders(d, names, i + 1, schema_holder_id,
                               Append(renamed, FALSE))

RECURSIVE ExecuteAll(_, _, _)
\* lines 392-393: the first statement that raises ends the loop
ExecuteAll(d, stmts, i) ==
  IF i > Len(stmts) THEN [ok |-> TRUE, db |-> d, executed |-> Len(stmts)]
  ELSE LET r == PgExecute(d, stmts[i])
       IN IF r.ok THEN ExecuteAll(r.db, stmts, i + 1)
          ELSE [ok |-> FALSE, db |-> d, executed |-> i - 1]

RECURSIVE DropHolders(_, _)
\* lines 399-402: "drop schema" of every schema holder that is left
DropHolders(d, holders) ==
  IF holders = {} THEN Ok(d)
  ELSE LET s == CHOOSE x \in holders : TRUE
           r == PgDropSchema(d, s)
       IN IF r.ok THEN DropHolders(r.db, holders \ {s}) ELSE Fail(d)

\* an exit that commits the subtransaction
subxact_exit_commit(current, saved, exc_type) == current

\* subxact.exit(exc_type, exc_value, traceback): PL/Python aborts the
\* subtransaction when exc_type is not None and commits it otherwise
subxact_exit(current, saved, exc_type) ==
  IF exc_type # None THEN saved ELSE current

-----------------------------------------------------------------------------
(* The caller's query and its result *)

RECURSIVE TableRows(_, _, _)
\* the rows (schemaname, tablename) of the tables of the schemas in schema_order
TableRows(d, schema_order, k) ==
  IF k > Len(schema_order) THEN <<>>
  ELSE LET names == Sorted({t.name : t \in {x \in d.tables :
                                             x.schema = schema_order[k]}})
       IN [i \in DOMAIN names |-> <<schema_order[k], names[i]>>]
          \o TableRows(d, schema_order, k + 1)

\* the query texts the callers send
Queries ==
  {"select schemaname, tablename from pg_catalog.pg_tables",
   "select current_database() as x, current_user as x"}

\* plpy.execute(query): colnames(), coltypes() and the rows, by position, as
\* the database answers in the state d (19 is the oid of the type name)
QueryMetadata(d, query) ==
  IF query = "select current_database() as x, current_user as x"
    THEN [colnames |-> <<"x", "x">>, coltypes |-> <<19, 19>>,
          rows |-> << <<d.datname, d.role>> >>]
    ELSE [colnames |-> <<"schemaname", "tablename">>, coltypes |-> <<19, 19>>,
          rows |-> TableRows(d, Sorted({t.schema : t \in d.tables}), 1)]

\* a PL/Python result row is a dict from column name to value: of two columns
\* with one name the later value is the one kept
RowDict(colnames, values) ==
  [name \in Range(colnames) |->
     values[CHOOSE i \in DOMAIN colnames :
              colnames[i] = name /\ \A j \in DOMAIN colnames : colnames[j] = name => j <= i]]

\* "map(lambda row: map(row.get, column_names), metadata)"
ResultRows(metadata) ==
  [r \in DOMAIN metadata.rows |->
     [j \in DOMAIN metadata.colnames |->
        RowDict(metadata.colnames, metadata.rows[r])[metadata.colnames[j]]]]

\* no filter: every oid asked about is looked up
EveryOid(mapping, oids) == Range(oids)

\* "filter(lambda oid: oid not in OidToTypeNameMapping, oids)"
UnmappedOids(mapping, oids) == {oid \in Range(oids) : oid \notin DOMAIN mapping}

\* _load_oid_to_type_name_mapping: the mapping it leaves and returns; every row
\* the query of pg_type answers is assigned
_load_oid_to_type_name_mapping(mapping, pg_type, oids) ==
  LET missing == UnmappedOids(mapping, oids)
      found == missing \cap DOMAIN pg_type
  IN [oid \in DOMAIN mapping \cup found |->
        IF oid \in found THEN _pg_convert_infoschema_type(pg_type[oid])
        ELSE mapping[oid]]

\* "map(oid_to_type_name.get, column_type_oids)"
TypeNames(mapping, oids) ==
  [i \in DOMAIN oids |-> IF oids[i] \in DOMAIN mapping THEN mapping[oids[i]] ELSE "None"]

-----------------------------------------------------------------------------
(* The inputs of the calls *)

\* (server, user, catalog, schema): one key and the four keys that differ from
\* it in one component
AllKeys ==
  {<<"presto1", "etl", "hive", "default">>,
   <<"presto2", "etl", "hive", "default">>,
   <<"presto1", "ops", "hive", "default">>,
   <<"presto1", "etl", "mysql", "default">>,
   <<"presto1", "etl", "hive", "web">>}

\* the keys the calls of run_system_catalog_as_temp_table are made with
Keys ==
  {<<"presto1", "etl", "hive", "default">>, <<"presto1", "etl", "hive", "web">>}

LoginUsers == {"alice", "bob"}

ResultTable == "presto_result"

\* what "select ... from information_schema.columns" may return on the remote
\* engine: rows (table_schema, table_name, column_name, is_nullable, data_type)
CatalogSales ==
  << <<"sales", "orders", "id", FALSE, "integer">>,
     <<"sales", "orders", "total", TRUE, "double">> >>

\* a schema named as a schema the local database already has (its only table
\* has a name that is too long)
CatalogCollision ==
  << <<"public", LongTable, "id", TRUE, "varchar">>,
     <<"sys", "items", "id", TRUE, "bigint">>,
     <<"sales", "orders", "id", FALSE, "integer">> >>

CatalogTooLong ==
  << <<"hr", "emp", "id", TRUE, "varchar">>,
     <<"sales", LongTable, "id", TRUE, "bigint">>,
     <<"hr", "emp", LongColumn, TRUE, "bigint">>,
     <<LongSchema, "items", "id", TRUE, "bigint">> >>

RemoteCatalogs == {<<>>, CatalogSales, CatalogCollision, CatalogTooLong}

\* the clock moves between two calls by one of these steps, or not at all
ClockSteps == {10, 60}

-----------------------------------------------------------------------------
(* State *)

NoFrame ==
  [server |-> "", user |-> "", catalog |-> "", schema |-> "", login_user |-> "",
   result_table |-> "", query |-> "",
   schema_names |-> None, statements |-> None, schema_name |-> None,
   query_cache |-> None, query_result |-> None, column_names |-> None,
   column_types |-> None, result |-> None, renamed |-> None, exc |-> None]

NoCall == [time |-> 0, db |-> None, rows |-> None, prior |-> None]

\* the module has just been loaded and no function of it has run
ProgramInit ==
  /\ now = 0
  /\ SchemaCacheEntry = NewSchemaCache
  /\ OidToTypeNameMapping = EmptyDict
  /\ db = InitialDb
  /\ pc = "idle"
  /\ frame = NoFrame
  /\ subxact = None
  /\ log = <<>>
  /\ hist = [calls |-> 0, ticked |-> FALSE, key |-> None, populated_at |-> 0,
             captured |-> EmptyDict, call |-> NoCall]

Init ==
  /\ ProgramInit
  /\ harness = [fn |-> "none"]

\* the dict the local variable query_cache refers to
QueryCacheOf(query_cache, entry) ==
  IF query_cache.shared THEN entry.query_cache ELSE query_cache.dict

\* an exception that reaches the caller as a local statement error whatever
\* raised it
RaiseLocal(f, kind) == [f EXCEPT !.exc = Some("SPIError")]

Raise(f, kind) == [f EXCEPT !.exc = Some(kind)]

-----------------------------------------------------------------------------
(* Provisioning and the clock *)

RECURSIVE SchemaHoldersLoop(_, _, _)
\* create_schema_holders: "for i in range(count)"
SchemaHoldersLoop(d, i, count) ==
  IF i >= count THEN d
  ELSE SchemaHoldersLoop(
         PgCreateSchema(PgDropSchemaIfExistsCascade(d, SchemaHolder(i)).db,
                        SchemaHolder(i)).db,
         i + 1, count)

RECURSIVE TableHoldersLoop(_, _, _)
\* create_table_holders: "for i in range(count)"; a create that raises ends it
TableHoldersLoop(d, i, count) ==
  IF i >= count THEN d
  ELSE LET r == PgCreateTable(d, "prestogres_catalog", TableHolder(i))
       IN IF r.ok THEN TableHoldersLoop(r.db, i + 1, count) ELSE d

create_schema_holders(count) ==
  /\ pc = "idle"
  /\ hist.calls = 0
  /\ db' = SchemaHoldersLoop(db, 0, count)
  /\ UNCHANGED <<now, SchemaCacheEntry, OidToTypeNameMapping, pc, frame, subxact, log,
                 hist, harness>>

create_table_holders(count) ==
  /\ pc = "idle"
  /\ hist.calls = 0
  /\ db' = TableHoldersLoop(db, 0, count)
  /\ UNCHANGED <<now, SchemaCacheEntry, OidToTypeNameMapping, pc, frame, subxact, log,
                 hist, harness>>

\* the clock moves on between two calls
Tick(step) ==
  /\ pc = "idle"
  /\ hist.calls > 0
  /\ ~ hist.ticked
  /\ now + step <= MaxTime
  /\ now' = now + step
  /\ hist' = [hist EXCEPT !.ticked = TRUE]
  /\ UNCHANGED <<SchemaCacheEntry, OidToTypeNameMapping, db, pc, frame, subxact, log,
                 harness>>

-----------------------------------------------------------------------------
(* run_system_catalog_as_temp_table *)

\* lines 262-269: the client is built (which reads the session's time zone),
\* the schema cache is tested and, when it is valid, read
BeginCall(key, login_user, query) ==
  /\ pc = "idle"
  /\ harness.fn = "none"
  /\ hist.calls < MaxCalls
  /\ LET cached == is_cached(SchemaCacheEntry, key[1], key[2], key[3], key[4], now)
         f == [NoFrame EXCEPT !.server = key[1], !.user = key[2], !.catalog = key[3],
                              !.schema = key[4], !.login_user = login_user,
                              !.result_table = ResultTable, !.query = query]
     IN /\ frame' = IF cached
                      THEN [f EXCEPT !.schema_names = SchemaCacheEntry.schema_names,
                                     !.statements = SchemaCacheEntry.statements,
                                     !.query_cache = Some([shared |-> TRUE,
                                                           dict |-> EmptyDict])]
                      ELSE f
        /\ pc' = IF cached THEN "lookup" ELSE "discover"
  /\ log' = <<"show timezone">>
  /\ hist' = [hist EXCEPT !.calls = @ + 1, !.ticked = FALSE,
                          !.call = [time |-> now, db |-> Some(db), rows |-> None,
                                    prior |-> Some([key |-> hist.key,
                                                    populated_at |-> hist.populated_at])]]
  /\ UNCHANGED <<now, SchemaCacheEntry, OidToTypeNameMapping, db, subxact, harness>>

\* lines 272-357: the remote catalog query answers rows; the plan is made and
\* cached, and query_cache is a new dict
Discover(rows) ==
  /\ pc = "discover"
  /\ LET p == plan_catalog(rows, frame.login_user)
     IN /\ SchemaCacheEntry' =
             set_cache(SchemaCacheEntry, frame.server, frame.user, frame.catalog,
                       frame.schema, p.schema_names, p.statements, ExpireTime(now))
        /\ frame' = [frame EXCEPT !.schema_names = Some(p.schema_names),
                                  !.statements = Some(p.statements),
                                  !.schema_name = p.schema_name,
                                  !.query_cache = Some([shared |-> FALSE,
                                                        dict |-> EmptyDict])]
  /\ pc' = "lookup"
  /\ log' = Append(log, "select information_schema.columns")
  /\ hist' = [hist EXCEPT !.key = Some(<<frame.server, frame.user, frame.catalog,
                                         frame.schema>>),
                          !.populated_at = now,
                          !.captured = EmptyDict,
                          !.call.rows = Some(rows)]
  /\ UNCHANGED <<now, OidToTypeNameMapping, db, subxact, harness>>

\* line 275 raises presto_client.PrestoException
DiscoverFails ==
  /\ pc = "discover"
  /\ frame' = Raise(frame, "PrestoException")
  /\ pc' = "raised"
  /\ log' = Append(log, "select information_schema.columns")
  /\ UNCHANGED <<now, SchemaCacheEntry, OidToTypeNameMapping, db, subxact, hist, harness>>

\* line 359: query_cache.get(query)
Lookup(f, entry) == DictGet(QueryCacheOf(Get(f.query_cache), entry), f.query)

\* a lookup whose result is never taken
IsHitNever(query_result) == FALSE

\* line 361: "if query_result"
IsHit(query_result) == query_result # None

\* lines 359-364: the query text is in query_cache
LookupHit ==
  /\ pc = "lookup"
  /\ LET query_result == Lookup(frame, SchemaCacheEntry)
     IN /\ IsHit(query_result)
        /\ frame' = [frame EXCEPT !.query_result = query_result,
                                  !.column_names = Some(Get(query_result).column_names),
                                  !.column_types = Some(Get(query_result).column_types),
                                  !.result = Some(Get(query_result).result)]
  /\ pc' = "materialize"
  /\ UNCHANGED <<now, SchemaCacheEntry, OidToTypeNameMapping, db, subxact, log, hist,
                 harness>>

\* lines 359-369: it is not; the subtransaction is entered
SubxactEnter ==
  /\ pc = "lookup"
  /\ LET query_result == Lookup(frame, SchemaCacheEntry)
     IN /\ ~ IsHit(query_result)
        /\ frame' = [frame EXCEPT !.query_result = query_result]
  /\ subxact' = Some(db)
  /\ pc' = "apply"
  /\ log' = Append(log, "subxact.enter")
  /\ UNCHANGED <<now, SchemaCacheEntry, OidToTypeNameMapping, db, hist, harness>>

\* lines 371-409 up to the first statement that raises: the stale schemas are
\* dropped, the schema holders renamed (after which schema_name is the last of
\* schema_names, if any), the planned statements executed, the placeholders
\* that are left dropped, the database name written from the local variable
\* schema_name (reading it while it is unbound raises UnboundLocalError), the
\* role set
ApplyStatements(d, f) ==
  LET names == Get(f.schema_names)
      dropped == DropStale(d, StaleSchemas(d))
      renamed == RenameHolders(dropped, names, 1, 0, <<>>)
      f1 == [f EXCEPT !.schema_name = IF names # <<>> THEN Some(names[Len(names)]) ELSE @,
                      !.renamed = Some(renamed.renamed)]
      executed == ExecuteAll(renamed.db, Get(f.statements), 1)
      catalog == PgDropSchemaCascade(executed.db, "prestogres_catalog")
      holders == DropHolders(catalog.db, {s \in catalog.db.schemas : IsSchemaHolder(s)})
      named == PgUpdateDatname(holders.db, Get(f1.schema_name))
      role == PgSetRole(named.db, f.login_user)
      log1 == <<"drop stale schemas", "alter schema holders", "statements">>
      log2 == Append(log1, "drop placeholders")
      log3 == Append(log2, "update pg_database")
      log4 == Append(log3, "set role")
  IN IF ~ executed.ok
       THEN [db |-> executed.db, frame |-> Raise(f1, "SPIError"), log |-> log1]
     ELSE IF ~ catalog.ok \/ ~ holders.ok
       THEN [db |-> IF catalog.ok THEN holders.db ELSE catalog.db,
             frame |-> Raise(f1, "SPIError"), log |-> log2]
     ELSE IF f1.schema_name = None
       THEN [db |-> holders.db, frame |-> Raise(f1, "UnboundLocalError"), log |-> log2]
     ELSE IF ~ role.ok
       THEN [db |-> role.db, frame |-> Raise(f1, "SPIError"), log |-> log4]
     ELSE [db |-> role.db, frame |-> f1, log |-> log4]

\* lines 371-409
Apply ==
  /\ pc = "apply"
  /\ LET r == ApplyStatements(db, frame)
     IN /\ db' = r.db
        /\ frame' = r.frame
        /\ log' = log \o r.log
        /\ pc' = IF r.frame.exc = None THEN "query" ELSE "unwind"
  /\ UNCHANGED <<now, SchemaCacheEntry, OidToTypeNameMapping, subxact, hist, harness>>

\* lines 412-419: what the caller's query answers in the state d, as the
\* QueryResult of line 422 and the type mapping line 418 leaves
ExecuteQuery(d, query, mapping) ==
  LET metadata == QueryMetadata(d, query)
      column_type_oids == metadata.coltypes
      oid_to_type_name == _load_oid_to_type_name_mapping(mapping, d.pg_type,
                                                         column_type_oids)
  IN [query_result |-> [column_names |-> metadata.colnames,
                        column_types |-> TypeNames(oid_to_type_name, column_type_oids),
                        result |-> ResultRows(metadata)],
      oid_to_type_name |-> oid_to_type_name]

\* the result stored whether or not the query raised
StoreQueryResultAlways(dict, query, query_result, raised) ==
  DictSet(dict, query, query_result)

\* line 422, the last statement of the try block: it is reached only when
\* none of lines 371-419 raised
StoreQueryResult(dict, query, query_result, raised) ==
  IF raised THEN dict ELSE DictSet(dict, query, query_result)

\* lines 411-422: the caller's query runs; its result is stored under the
\* query text in the dict query_cache refers to
RunQuery ==
  /\ pc = "query"
  /\ LET executed == ExecuteQuery(db, frame.query, OidToTypeNameMapping)
         query_result == executed.query_result
         column_names == query_result.column_names
         column_types == query_result.column_types
         result == query_result.result
         oid_to_type_name == executed.oid_to_type_name
         qc == Get(frame.query_cache)
         f == [frame EXCEPT !.column_names = Some(column_names),
                            !.column_types = Some(column_types),
                            !.result = Some(result)]
     IN /\ OidToTypeNameMapping' = oid_to_type_name
        /\ hist' = [hist EXCEPT !.captured = DictSet(@, frame.query, query_result)]
        /\ IF qc.shared
             THEN /\ SchemaCacheEntry' =
                       [SchemaCacheEntry EXCEPT !.query_cache =
                          StoreQueryResult(@, frame.query, query_result, FALSE)]
                  /\ frame' = f
             ELSE /\ frame' = [f EXCEPT !.query_cache =
                                 Some([qc EXCEPT !.dict =
                                         StoreQueryResult(@, frame.query, query_result,
                                                          FALSE)])]
                  /\ UNCHANGED SchemaCacheEntry
  /\ pc' = "unwind"
  /\ log' = Append(log, "query")
  /\ UNCHANGED <<now, db, subxact, harness>>

\* line 412 raises plpy.SPIError: lines 413-422 are not reached
RunQueryFails ==
  /\ pc = "query"
  /\ LET query_result == ExecuteQuery(db, frame.query, OidToTypeNameMapping).query_result
         qc == Get(frame.query_cache)
     IN IF qc.shared
          THEN /\ SchemaCacheEntry' =
                    [SchemaCacheEntry EXCEPT !.query_cache =
                       StoreQueryResult(@, frame.query, query_result, TRUE)]
               /\ frame' = Raise(frame, "SPIError")
          ELSE /\ frame' = Raise([frame EXCEPT !.query_cache =
                                    Some([qc EXCEPT !.dict =
                                            StoreQueryResult(@, frame.query, query_result,
                                                             TRUE)])],
                                 "SPIError")
               /\ UNCHANGED SchemaCacheEntry
  /\ pc' = "unwind"
  /\ log' = Append(log, "query")
  /\ UNCHANGED <<now, OidToTypeNameMapping, db, subxact, hist, harness>>

\* a finally clause after which the statements of lines 428-435 always follow
AfterExitAlways(exc) == "materialize"

\* lines 424-437: after the finally clause an exception raised in the try
\* block goes on to the handler of line 437, past lines 428-435
AfterExit(exc) == IF exc = None THEN "materialize" ELSE "raised"

\* lines 424-426: the finally clause
SubxactExit ==
  /\ pc = "unwind"
  /\ db' = subxact_exit(db, Get(subxact), Some("rollback subtransaction"))
  /\ subxact' = None
  /\ pc' = AfterExit(frame.exc)
  /\ log' = Append(log, "subxact.exit")
  /\ UNCHANGED <<now, SchemaCacheEntry, OidToTypeNameMapping, frame, hist, harness>>

\* lines 428-435
Materialize ==
  /\ pc = "materialize"
  /\ LET column_names == _rename_duplicated_column_names(Get(frame.column_names))
         column_types == Get(frame.column_types)
         create_sql == _build_create_temp_table_sql(frame.result_table, column_names,
                                                    column_types)
         insert_sql == _build_insert_into_sql(frame.result_table, column_names)
         dropped == PgDropTableIfExists(db, frame.result_table)
         created == PgCreateTempTable(dropped.db, create_sql)
         load == _batch_insert(insert_sql, InsertBatchSize, column_types,
                               Get(frame.result), 0)
     IN IF created.ok /\ ~ load.raised
          THEN /\ db' = PgInsertExecutions(created.db, frame.result_table, load.executions)
               /\ pc' = "returned"
               /\ log' = log \o <<"drop table", "create temporary table">>
                             \o [k \in DOMAIN load.executions |-> "insert"]
               /\ UNCHANGED frame
          ELSE /\ db' = IF created.ok
                          THEN PgInsertExecutions(created.db, frame.result_table,
                                                  load.executions)
                          ELSE dropped.db
               /\ pc' = "raised"
               /\ frame' = Raise(frame, "SPIError")
               /\ log' = log \o <<"drop table", "create temporary table">>
                             \o [k \in DOMAIN load.executions |-> "insert"]
  /\ UNCHANGED <<now, SchemaCacheEntry, OidToTypeNameMapping, subxact, hist, harness>>

\* the call is over: its result or its exception has reached the caller
Return ==
  /\ pc \in {"returned", "raised"}
  /\ pc' = "idle"
  /\ frame' = NoFrame
  /\ log' = <<>>
  /\ hist' = [hist EXCEPT !.call = NoCall]
  /\ UNCHANGED <<now, SchemaCacheEntry, OidToTypeNameMapping, db, subxact, harness>>

-----------------------------------------------------------------------------
(* run_presto_as_temp_table *)

\* what _get_session_search_path_array answers
SearchPaths == {<<"$user", "public">>, <<"web", "public">>, <<>>}

\* lines 220-222: the schema the client is given
PrestoSchema(schema, search_path) ==
  IF search_path # <<"$user", "public">> /\ Len(search_path) > 0
    THEN search_path[1] ELSE schema

\* what the remote engine answers to a query: q.columns() as (name, type)
\* pairs and q.results() as rows
ResultTwoRows ==
  [columns |-> << <<"id", "bigint">>, <<"name", "varchar">> >>,
   rows |-> << <<1, "a">>, <<2, "b">> >>]

ResultSameName ==
  [columns |-> << <<"x", "double">>, <<"x", "varbinary">> >>,
   rows |-> << <<1, 2>> >>]

ResultTwelveRows ==
  [columns |-> << <<"n", "bigint">> >>,
   rows |-> [i \in 1..12 |-> <<i>>]]

ResultNoRows ==
  [columns |-> << <<"id", "bigint">> >>, rows |-> <<>>]

RemoteResults == {ResultTwoRows, ResultSameName, ResultTwelveRows, ResultNoRows}

\* lines 219-224: the search path and the time zone of the session are read
\* and the client is built
PrestoBegin(key, search_path, query) ==
  /\ pc = "idle"
  /\ harness.fn = "none"
  /\ hist.calls < MaxCalls
  /\ frame' = [NoFrame EXCEPT !.server = key[1], !.user = key[2], !.catalog = key[3],
                              !.schema = PrestoSchema(key[4], search_path),
                              !.result_table = ResultTable, !.query = query]
  /\ pc' = "presto query"
  /\ log' = <<"select search_path", "show timezone">>
  /\ hist' = [hist EXCEPT !.calls = @ + 1, !.ticked = FALSE,
                          !.call = [time |-> now, db |-> Some(db), rows |-> None,
                                    prior |-> Some([key |-> hist.key,
                                                    populated_at |-> hist.populated_at])]]
  /\ UNCHANGED <<now, SchemaCacheEntry, OidToTypeNameMapping, db, subxact, harness>>

\* line 230: the remote engine takes the query; q is open
PrestoQuery(answer) ==
  /\ pc = "presto query"
  /\ frame' = [frame EXCEPT !.column_names =
                              Some([i \in DOMAIN answer.columns |-> answer.columns[i][1]]),
                            !.column_types =
                              Some([i \in DOMAIN answer.columns |-> answer.columns[i][2]]),
                            !.result = Some(answer.rows)]
  /\ pc' = "presto columns"
  /\ log' = Append(log, "client.query")
  /\ UNCHANGED <<now, SchemaCacheEntry, OidToTypeNameMapping, db, subxact, hist, harness>>

\* line 230 raises presto_client.PrestoException: there is no q to close
PrestoQueryFails ==
  /\ pc = "presto query"
  /\ frame' = Raise(frame, "PrestoException")
  /\ pc' = "raised"
  /\ log' = Append(log, "client.query")
  /\ UNCHANGED <<now, SchemaCacheEntry, OidToTypeNameMapping, db, subxact, hist, harness>>

\* line 235 raises presto_client.PrestoException
PrestoColumnsFail ==
  /\ pc = "presto columns"
  /\ frame' = Raise(frame, "PrestoException")
  /\ pc' = "presto close"
  /\ log' = Append(log, "q.columns")
  /\ UNCHANGED <<now, SchemaCacheEntry, OidToTypeNameMapping, db, subxact, hist, harness>>

\* lines 233-249 up to the first statement that raises: the table is dropped,
\* created and loaded; results_fail: q.results() raises before its first row;
\* fail_at: the execution of the load that the database rejects (0: none)
PrestoStatements(d, f, results_fail, fail_at) ==
  LET column_names == _rename_duplicated_column_names(Get(f.column_names))
      column_types == [i \in DOMAIN Get(f.column_types) |->
                         _pg_result_type(Get(f.column_types)[i])]
      create_sql == _build_create_temp_table_sql(f.result_table, column_names,
                                                 column_types)
      insert_sql == _build_insert_into_sql(f.result_table, column_names)
      dropped == PgDropTableIfExists(d, f.result_table)
      created == PgCreateTempTable(dropped.db, create_sql)
      load == _batch_insert(insert_sql, InsertBatchSize, column_types, Get(f.result),
                            fail_at)
      log1 == <<"q.columns", "drop table", "create temporary table">>
      inserts == [k \in 1..(Len(load.executions) + IF load.raised THEN 1 ELSE 0)
                    |-> "insert"]
  IN IF ~ created.ok
       THEN [db |-> dropped.db, frame |-> Raise(f, "SPIError"), log |-> log1]
     ELSE IF results_fail
       THEN [db |-> created.db, frame |-> Raise(f, "PrestoException"),
             log |-> Append(log1, "q.results")]
     ELSE [db |-> PgInsertExecutions(created.db, f.result_table, load.executions),
           frame |-> IF load.raised THEN Raise(f, "SPIError") ELSE f,
           log |-> Append(log1, "q.results") \o inserts]

\* lines 233-249
PrestoMaterialize(results_fail, fail_at) ==
  /\ pc = "presto columns"
  /\ LET r == PrestoStatements(db, frame, results_fail, fail_at)
     IN /\ db' = r.db
        /\ frame' = r.frame
        /\ log' = log \o r.log
  /\ pc' = "presto close"
  /\ UNCHANGED <<now, SchemaCacheEntry, OidToTypeNameMapping, subxact, hist, harness>>

\* lines 250-251: the finally clause
PrestoClose ==
  /\ pc = "presto close"
  /\ pc' = IF frame.exc = None THEN "returned" ELSE "raised"
  /\ log' = Append(log, "q.close")
  /\ UNCHANGED <<now, SchemaCacheEntry, OidToTypeNameMapping, db, frame, subxact, hist,
                 harness>>

Next ==
  \/ \E count \in 1..MaxHolders : create_schema_holders(count)
  \/ \E count \in 1..MaxHolders : create_table_holders(count)
  \/ \E step \in ClockSteps : Tick(step)
  \/ \E key \in Keys, login_user \in LoginUsers, query \in Queries :
       BeginCall(key, login_user, query)
  \/ \E rows \in RemoteCatalogs : Discover(rows)
  \/ DiscoverFails
  \/ LookupHit
  \/ SubxactEnter
  \/ Apply
  \/ RunQuery
  \/ RunQueryFails
  \/ SubxactExit
  \/ Materialize
  \/ Return

Spec == Init /\ [][Next]_vars

-----------------------------------------------------------------------------
(* The helper functions applied directly to inputs drawn from bounded sets *)

SeqsUpTo(S, n) == UNION {[1..k -> S] : k \in 0..n}

\* column names as a query result may carry them
ColumnNames == {"a", "a_", "b"}

InitRename ==
  /\ ProgramInit
  /\ \E column_names \in SeqsUpTo(ColumnNames, MaxNames) :
       harness = [fn |-> "_rename_duplicated_column_names",
                  column_names |-> column_names, output |-> None]

ApplyRename ==
  /\ harness.fn = "_rename_duplicated_column_names"
  /\ harness.output = None
  /\ harness' = [harness EXCEPT !.output = Some(RenameWithWarnings(harness.column_names))]
  /\ UNCHANGED <<now, SchemaCacheEntry, OidToTypeNameMapping, db, pc, frame, subxact, log,
                 hist>>

SpecRename == InitRename /\ [][ApplyRename]_vars

\* a row source of length n for a table of the given column types
RowSource(n, column_types) ==
  [i \in 1..n |-> [j \in DOMAIN column_types |-> 10 * i + j]]

ColumnTypeLists == {<<"bigint">>, <<"bigint", "varchar(255)">>}

\* which execution of a load the database rejects (0: none)
FailPoints == {0, 1, 2}

InitBatch ==
  /\ ProgramInit
  /\ \E batch_size \in 1..MaxBatch, n \in 0..MaxRows, column_types \in ColumnTypeLists,
        fail_at \in FailPoints :
       harness = [fn |-> "_batch_insert", batch_size |-> batch_size,
                  column_types |-> column_types, rows |-> RowSource(n, column_types),
                  fail_at |-> fail_at, output |-> None]

ApplyBatchInsert ==
  /\ harness.fn = "_batch_insert"
  /\ harness.output = None
  /\ harness' = [harness EXCEPT !.output =
       Some(_batch_insert(_build_insert_into_sql(ResultTable, <<"c1", "c2">>),
                          harness.batch_size, harness.column_types, harness.rows,
                          harness.fail_at))]
  /\ UNCHANGED <<now, SchemaCacheEntry, OidToTypeNameMapping, db, pc, frame, subxact, log,
                 hist>>

SpecBatch == InitBatch /\ [][ApplyBatchInsert]_vars

\* the times at which the cache is filled and asked
FillTimes == {0, 10}
AskTimes == {0, 10, 59, 60, 61, 69, 70, 71}

\* the SchemaCache as __init__ leaves it, or as set_cache leaves it when called
\* with a key at a fill time
InitIsCached ==
  /\ now = 0
  /\ OidToTypeNameMapping = EmptyDict
  /\ db = InitialDb
  /\ pc = "idle"
  /\ frame = NoFrame
  /\ subxact = None
  /\ log = <<>>
  /\ hist = [calls |-> 0, ticked |-> FALSE, key |-> None, populated_at |-> 0,
             captured |-> EmptyDict, call |-> NoCall]
  /\ \E stored \in {None} \cup {Some([key |-> k, at |-> t]) : k \in AllKeys, t \in FillTimes},
        key \in AllKeys, current_time \in AskTimes :
       /\ SchemaCacheEntry =
            IF stored = None THEN NewSchemaCache
            ELSE set_cache(NewSchemaCache, Get(stored).key[1], Get(stored).key[2],
                           Get(stored).key[3], Get(stored).key[4], <<>>,
                           RoleStatements("alice"), ExpireTime(Get(stored).at))
       /\ harness = [fn |-> "is_cached", stored |-> stored, key |-> key,
                     current_time |-> current_time, output |-> None]

ApplyIsCached ==
  /\ harness.fn = "is_cached"
  /\ harness.output = None
  /\ harness' = [harness EXCEPT !.output =
       Some(is_cached(SchemaCacheEntry, harness.key[1], harness.key[2], harness.key[3],
                      harness.key[4], harness.current_time))]
  /\ UNCHANGED <<now, SchemaCacheEntry, OidToTypeNameMapping, db, pc, frame, subxact, log,
                 hist>>

SpecIsCached == InitIsCached /\ [][ApplyIsCached]_vars

\* rows of information_schema.columns the remote engine may answer
PlanRows ==
  { <<"sales", "orders", "id", FALSE, "integer">>,
    <<"sales", "items", "total", TRUE, "double">>,
    <<"hr", "emp", "id", TRUE, "varchar">>,
    <<"hr", "emp", LongColumn, TRUE, "bigint">>,
    <<"sales", LongTable, "id", TRUE, "bigint">>,
    <<LongSchema, "items", "id", TRUE, "bigint">>,
    <<"sys", "items", "id", TRUE, "bigint">> }

\* the answers of at most n rows, no row twice, in every order of arrival
RowSequences(n) ==
  {rows \in SeqsUpTo(PlanRows, n) :
     \A i, j \in DOMAIN rows : i # j => rows[i] # rows[j]}

\* a database provisioned with more placeholders than there are rows
ProvisionedDb ==
  TableHoldersLoop(SchemaHoldersLoop(InitialDb, 0, MaxHolders + 2), 0, MaxHolders + 2)

InitPlan ==
  /\ ProgramInit
  /\ \E rows \in RowSequences(MaxPlanRows) :
       harness = [fn |-> "plan", rows |-> rows, output |-> None]

\* lines 277-353 followed by lines 371-409 on the provisioned database
ApplyPlan ==
  /\ harness.fn = "plan"
  /\ harness.output = None
  /\ LET p == plan_catalog(harness.rows, "alice")
         f == [NoFrame EXCEPT !.login_user = "alice", !.schema = "default",
                              !.schema_names = Some(p.schema_names),
                              !.statements = Some(p.statements),
                              !.schema_name = p.schema_name]
     IN harness' = [harness EXCEPT !.output =
                      Some([plan |-> p, applied |-> ApplyStatements(ProvisionedDb, f)])]
  /\ UNCHANGED <<now, SchemaCacheEntry, OidToTypeNameMapping, db, pc, frame, subxact, log,
                 hist>>

SpecPlan == InitPlan /\ [][ApplyPlan]_vars

\* the oids a result's coltypes() may hold (99 is in no catalog)
Oids == {19, 25, 13087, 99}

\* pg_catalog.pg_type as created, after "alter type ... rename", and after
\* "drop type"
PgTypeCatalogs ==
  { InitialDb.pg_type,
    (19 :> "name") @@ (25 :> "text") @@ (13087 :> "cardinal_number"),
    (19 :> "name") @@ (25 :> "yes_or_no") }

\* harness.seen keeps the name each oid was first mapped to, harness.before
\* the oids that were mapped when the last call began, harness.looked_up the
\* oids in the "where oid in (...)" of the last call
InitTypes ==
  /\ ProgramInit
  /\ harness = [fn |-> "_load_oid_to_type_name_mapping", oids |-> <<>>, seen |-> EmptyDict,
                before |-> {}, looked_up |-> {}, loads |-> 0]

\* lines 201-211
LoadTypes(oids) ==
  /\ harness.fn = "_load_oid_to_type_name_mapping"
  /\ harness.loads < MaxLoads
  /\ LET mapping == _load_oid_to_type_name_mapping(OidToTypeNameMapping, db.pg_type, oids)
     IN /\ OidToTypeNameMapping' = mapping
        /\ harness' = [harness EXCEPT
             !.oids = oids,
             !.seen = [oid \in DOMAIN @ \cup DOMAIN mapping |->
                         IF oid \in DOMAIN @ THEN @[oid] ELSE mapping[oid]],
             !.before = DOMAIN OidToTypeNameMapping,
             !.looked_up = UnmappedOids(OidToTypeNameMapping, oids),
             !.loads = @ + 1]
  /\ UNCHANGED <<now, SchemaCacheEntry, db, pc, frame, subxact, log, hist>>

\* the catalog of types changes between two calls
AlterTypes(pg_type) ==
  /\ harness.fn = "_load_oid_to_type_name_mapping"
  /\ pg_type # db.pg_type
  /\ db' = [db EXCEPT !.pg_type = pg_type]
  /\ UNCHANGED <<now, SchemaCacheEntry, OidToTypeNameMapping, pc, frame, subxact, log, hist,
                 harness>>

NextTypes ==
  \/ \E oids \in SeqsUpTo(Oids, 2) : LoadTypes(oids)
  \/ \E pg_type \in PgTypeCatalogs : AlterTypes(pg_type)

SpecTypes == InitTypes /\ [][NextTypes]_vars

\* Both orchestrators in one session, called by one login user under one key
NextOrchestrators ==
  \/ \E count \in 1..MaxHolders : create_schema_holders(count)
  \/ \E count \in 1..MaxHolders : create_table_holders(count)
  \/ \E query \in Queries : BeginCall(<<"presto1", "etl", "hive", "default">>, "alice", query)
  \/ \E rows \in RemoteCatalogs : Discover(rows)
  \/ DiscoverFails
  \/ LookupHit
  \/ SubxactEnter
  \/ Apply
  \/ RunQuery
  \/ RunQueryFails
  \/ SubxactExit
  \/ Materialize
  \/ Return
  \/ \E search_path \in SearchPaths :
       PrestoBegin(<<"presto1", "etl", "hive", "default">>, search_path, "select 1")
  \/ \E answer \in RemoteResults : PrestoQuery(answer)
  \/ PrestoQueryFails
  \/ PrestoColumnsFail
  \/ \E results_fail \in BOOLEAN, fail_at \in FailPoints :
       PrestoMaterialize(results_fail, fail_at)
  \/ PrestoClose

SpecOrchestrators == Init /\ [][NextOrchestrators]_vars

-----------------------------------------------------------------------------
(* Properties *)

\* the local catalog: everything of the database but the session's temporary
\* tables
CatalogView(d) == [d EXCEPT !.temp = {}]

Discovery == "select information_schema.columns"

CallKey == <<frame.server, frame.user, frame.catalog, frame.schema>>

\* C1: when a call of run_system_catalog_as_temp_table is over, by return or
\* by exception, the local catalog (schemas, placeholders, tables, database
\* name, role) is what it was when the call began; only the temporary target
\* table may differ.
C1_CatalogRestored ==
  pc \in {"returned", "raised"} =>
    CatalogView(db) = CatalogView(Get(hist.call.db))

\* a call whose planned statements raised after placeholder schemas had been
\* renamed, and which has unwound
C1_Witness ==
  /\ pc = "raised"
  /\ frame.exc = Some("SPIError")
  /\ frame.renamed # None
  /\ TRUE \in Range(Get(frame.renamed))
  /\ "query" \notin Range(log)

\* C2: a query text whose result a call of this cache epoch has captured is
\* not executed again by a later call of the epoch: no call reaches the
\* execution of a query text that is among the captured ones.
C2_CapturedQueryNotExecutedAgain ==
  ~ (pc = "query" /\ frame.query \in DOMAIN hist.captured)

\* C3: a call whose catalog discovery answered zero rows does not raise
\* before the caller's query has been executed.
C3_EmptyCatalogSucceeds ==
  (hist.call.rows = Some(<<>>) /\ pc = "raised") => "query" \in Range(log)

NameCount(column_names, name) ==
  Cardinality({i \in DOMAIN column_names : column_names[i] = name})

Distinct(column_names) ==
  \A i, j \in DOMAIN column_names : i # j => column_names[i] # column_names[j]

RECURSIVE Marked(_, _)
\* name followed by k marker characters
Marked(name, k) == IF k = 0 THEN name ELSE Marked(name, k - 1) \o "_"

\* an earlier name of the sequence, followed by one marker or more, is the name
\* at position i
ExtendsEarlier(column_names, i) ==
  \E j \in 1..(i - 1), k \in 1..MaxNames : column_names[i] = Marked(column_names[j], k)

\* C4 as stated: the output of _rename_duplicated_column_names has the length
\* of the input, its entries are pairwise distinct, and every name that occurs
\* exactly once in the input is unchanged at its position.
C4_UniqueNamesUnchanged ==
  (harness.fn = "_rename_duplicated_column_names" /\ harness.output # None) =>
    LET input == harness.column_names
        output == Get(harness.output).renamed
    IN /\ Len(output) = Len(input)
       /\ Distinct(output)
       /\ \A i \in DOMAIN input : NameCount(input, input[i]) = 1 => output[i] = input[i]

\* C4 amended: the output of _rename_duplicated_column_names has the length
\* of the input, its entries are pairwise distinct, and every name that occurs
\* exactly once in the input and is not an earlier input name followed by
\* marker characters is unchanged at its position.
C4_UniqueUnmarkedNamesUnchanged ==
  (harness.fn = "_rename_duplicated_column_names" /\ harness.output # None) =>
    LET input == harness.column_names
        output == Get(harness.output).renamed
    IN /\ Len(output) = Len(input)
       /\ Distinct(output)
       /\ \A i \in DOMAIN input :
            (NameCount(input, input[i]) = 1 /\ ~ ExtendsEarlier(input, i))
              => output[i] = input[i]

\* a name given three times has been renamed twice, next to a name given once
C4_Witness ==
  /\ harness.fn = "_rename_duplicated_column_names"
  /\ harness.output # None
  /\ harness.column_names = <<"a", "b", "a", "a">>
  /\ Get(harness.output).renamed = <<"a", "b", "a_", "a__">>

\* C5: a load in which no execution raises passes every source row to
\* plpy.execute exactly once and in source order, in ceil(L / B) executions.
C5_EachRowOnceInOrder ==
  (harness.fn = "_batch_insert" /\ harness.output # None
     /\ ~ Get(harness.output).raised) =>
    LET executions == Get(harness.output).executions
        L == Len(harness.rows)
        B == harness.batch_size
    IN /\ Flatten([k \in DOMAIN executions |-> executions[k].args])
            = Flatten(harness.rows)
       /\ Flatten([k \in DOMAIN executions |-> InsertedRows(executions[k])])
            = harness.rows
       /\ Len(executions) = (L + B - 1) \div B

\* a load of several full batches and a last, shorter one
C5_Witness ==
  /\ harness.fn = "_batch_insert"
  /\ harness.output # None
  /\ ~ Get(harness.output).raised
  /\ Len(harness.rows) > 2 * harness.batch_size
  /\ Len(harness.rows) % harness.batch_size # 0
  /\ harness.batch_size > 1

\* the schema cache was valid for the call's key at the call's time
ValidAtCall ==
  LET prior == Get(hist.call.prior)
  IN /\ prior.key = Some(CallKey)
     /\ hist.call.time < prior.populated_at + CacheTTL

\* C6: a call issues the catalog discovery query exactly when the schema
\* cache is not valid for its key at its time (populated under the same key
\* less than 60 time units before); a call that does not discover uses the
\* cached schema_names and statements, and a discovery that answers replaces
\* the cached plan and its expiry.
C6_DiscoveryIffCacheInvalid ==
  pc # "idle" =>
    /\ pc = "discover" => (~ ValidAtCall /\ Discovery \notin Range(log))
    /\ pc # "discover" => (Discovery \in Range(log) <=> ~ ValidAtCall)
    /\ (pc # "discover" /\ ValidAtCall) =>
         /\ frame.schema_names = SchemaCacheEntry.schema_names
         /\ frame.statements = SchemaCacheEntry.statements
         /\ hist.call.rows = None
    /\ hist.call.rows # None =>
         /\ SchemaCacheEntry.schema_names = frame.schema_names
         /\ SchemaCacheEntry.statements = frame.statements
         /\ SchemaCacheEntry.expire_time = Some(hist.call.time + CacheTTL)

\* the third call of a key, 70 time units after the first one populated the
\* cache and 60 after the second one used it, has discovered again
C6_Witness ==
  /\ hist.calls = 3
  /\ pc = "lookup"
  /\ hist.call.rows # None
  /\ Get(hist.call.prior).key = Some(CallKey)
  /\ hist.call.time = Get(hist.call.prior).populated_at + 70

MaterializeStatements == {"drop table", "create temporary table", "insert"}

\* C7: a call whose query text is found in the query cache opens no
\* subtransaction and executes, after the session read that precedes the
\* lookup, nothing but the statements of Materialize; the local catalog stays
\* as it was.
C7_HitSkipsApply ==
  frame.query_result # None =>
    /\ subxact = None
    /\ Range(log) \subseteq {"show timezone"} \cup MaterializeStatements
    /\ CatalogView(db) = CatalogView(Get(hist.call.db))
    /\ pc = "returned" =>
         /\ SubSeq(log, 1, 3) = <<"show timezone", "drop table", "create temporary table">>
         /\ \A k \in 4..Len(log) : log[k] = "insert"

\* a call served from the query cache has loaded the target table
C7_Witness ==
  /\ pc = "returned"
  /\ frame.query_result # None
  /\ "insert" \in Range(log)
  /\ \E t \in db.temp : t.name = frame.result_table /\ t.rows # <<>>

\* C8: is_cached answers true exactly when the entry has been populated, the
\* four stored key components equal the requested ones and the time asked is
\* before the expiry.
C8_IsCachedIffKeyAndTime ==
  (harness.fn = "is_cached" /\ harness.output # None) =>
    (Get(harness.output) <=>
       /\ harness.stored # None
       /\ Get(harness.stored).key[1] = harness.key[1]
       /\ Get(harness.stored).key[2] = harness.key[2]
       /\ Get(harness.stored).key[3] = harness.key[3]
       /\ Get(harness.stored).key[4] = harness.key[4]
       /\ harness.current_time < Get(harness.stored).at + CacheTTL)

\* the key is the stored one and the time asked is the expiry: the answer is
\* false
C8_Witness ==
  /\ harness.fn = "is_cached"
  /\ harness.output = Some(FALSE)
  /\ harness.stored # None
  /\ Get(harness.stored).key = harness.key
  /\ harness.current_time = Get(harness.stored).at + CacheTTL

\* C9: every QueryResult the query cache holds, and so every one a call is
\* served, is the one captured for its query text since the schema cache was
\* last repopulated, and the schema cache was repopulated under the key of the
\* call that is served.
C9_ServedFromSameEpoch ==
  /\ \A q \in DOMAIN SchemaCacheEntry.query_cache :
       /\ q \in DOMAIN hist.captured
       /\ SchemaCacheEntry.query_cache[q] = hist.captured[q]
  /\ frame.query_result # None =>
       /\ frame.query \in DOMAIN hist.captured
       /\ Get(frame.query_result) = hist.captured[frame.query]
       /\ hist.key = Some(CallKey)
       /\ hist.call.time < hist.populated_at + CacheTTL

\* a call is served the result that the call before it captured, after the
\* cache had been populated by the first call
C9_Witness ==
  /\ pc = "materialize"
  /\ frame.query_result # None
  /\ hist.calls = 3
  /\ Get(hist.call.prior).key = Some(CallKey)

SchemaHoldersOf(d) == {s \in d.schemas : IsSchemaHolder(s)}

TableHoldersOf(d) == {t \in d.tables : t.schema = "prestogres_catalog"}

\* the schemas of the plan that the local database does not have by itself
SchemasToMirror(schema_names) == Range(schema_names) \ ReservedSchemas

TablesToMirror(statements) ==
  {i \in DOMAIN statements : statements[i].op = "alter table rename"}

\* C10: a call that has fewer placeholder schemas than schemas to mirror, or
\* fewer placeholder tables than tables to mirror, does not reach the
\* execution of the caller's query.
C10_ShortageRaises ==
  pc = "query" =>
    /\ Cardinality(SchemasToMirror(Get(frame.schema_names)))
         <= Cardinality(SchemaHoldersOf(Get(hist.call.db)))
    /\ Cardinality(TablesToMirror(Get(frame.statements)))
         <= Cardinality(TableHoldersOf(Get(hist.call.db)))


IsPrefix(a, b) == Len(a) <= Len(b) /\ SubSeq(b, 1, Len(a)) = a

RECURSIVE LogFrom(_, _)
\* the entries of the log after the first entry that is mark (none if there is
\* no such entry)
LogFrom(entries, mark) ==
  IF entries = <<>> THEN <<>>
  ELSE IF Head(entries) = mark THEN Tail(entries)
  ELSE LogFrom(Tail(entries), mark)

RECURSIVE LogUpTo(_, _)
\* the entries of the log before the first entry that is mark
LogUpTo(entries, mark) ==
  IF entries = <<>> \/ Head(entries) = mark THEN <<>>
  ELSE <<Head(entries)>> \o LogUpTo(Tail(entries), mark)

\* what the running call has executed inside the subtransaction
InScope == LogUpTo(LogFrom(log, "subxact.enter"), "subxact.exit")

ApplyOrder ==
  <<"drop stale schemas", "alter schema holders", "statements", "drop placeholders",
    "update pg_database", "set role", "query">>

\* C11: in a call in which the rename of a placeholder schema has raised, the
\* rename has been attempted for every name of schema_names, the planned
\* statements have been started after the renames, and what the call executes
\* in the scope is the planned statements, the drop of the placeholders, the
\* database-name update, the role switch and the caller's query in this order,
\* up to the first of them that raises itself; with none raising the query is
\* executed.
C11_RenameFailureDoesNotAbort ==
  (frame.renamed # None /\ FALSE \in Range(Get(frame.renamed))) =>
    /\ Len(Get(frame.renamed)) = Len(Get(frame.schema_names))
    /\ IsPrefix(InScope, ApplyOrder)
    /\ IsPrefix(SubSeq(ApplyOrder, 1, 3), InScope)
    /\ (frame.exc = None /\ pc = "query") => InScope = SubSeq(ApplyOrder, 1, 6)
    /\ (frame.exc = None /\ pc # "query") => InScope = ApplyOrder
    /\ pc = "returned" => frame.exc = None

\* the rename to the first schema name raised, the rename to the second one
\* was done with the placeholder the first had not used, and the caller's query
\* has run
C11_Witness ==
  /\ frame.renamed = Some(<<FALSE, TRUE>>)
  /\ frame.exc = None
  /\ pc = "returned"
  /\ "query" \in Range(log)


Cleanup == {"subxact.exit", "q.close"}

RECURSIVE StripCleanup(_)
\* the log without the cleanup entries it ends with
StripCleanup(entries) ==
  IF entries # <<>> /\ entries[Len(entries)] \in Cleanup
    THEN StripCleanup(SubSeq(entries, 1, Len(entries) - 1))
    ELSE entries

\* what is sent to the remote engine, and what the local database executes
RemoteSteps == {Discovery, "client.query", "q.columns", "q.results"}

LocalSteps ==
  {"select search_path", "show timezone", "drop stale schemas", "alter schema holders",
   "statements", "drop placeholders", "update pg_database", "set role", "query",
   "drop table", "create temporary table", "insert"}

StatementNames(st) ==
  CASE st.op = "alter table set schema" -> {st.schema}
    [] st.op = "alter table rename" -> {st.schema, st.table}
    [] st.op = "alter table add" ->
         {st.schema, st.table} \cup {st.adds[i].name : i \in DOMAIN st.adds}
    [] OTHER -> {}

WithinLimit(row) == ~ TooLong(row[1]) /\ ~ TooLong(row[2]) /\ ~ TooLong(row[3])

\* C13: whatever rows discovery answers, no name longer than 63 characters is
\* in schema_names or in a planned statement, the Apply step of a call with
\* enough placeholders does not raise when rows were answered, and every row
\* with three names within the limit has its schema in schema_names (unless
\* it is a system schema) and its column in the ADD COLUMN statement of its
\* table.
C13_LongNamesSkippedOnly ==
  (harness.fn = "plan" /\ harness.output # None) =>
    LET rows == harness.rows
        p == Get(harness.output).plan
        applied == Get(harness.output).applied
    IN /\ \A i \in DOMAIN p.schema_names : ~ TooLong(p.schema_names[i])
       /\ \A i \in DOMAIN p.statements :
            \A name \in StatementNames(p.statements[i]) : ~ TooLong(name)
       /\ rows # <<>> => applied.frame.exc = None
       /\ \A i \in DOMAIN rows :
            (WithinLimit(rows[i]) /\ ~ IsSystemSchema(rows[i][1])) =>
              /\ rows[i][1] \in Range(p.schema_names)
              /\ \E k \in DOMAIN p.statements :
                   /\ p.statements[k].op = "alter table add"
                   /\ p.statements[k].schema = rows[i][1]
                   /\ p.statements[k].table = rows[i][2]
                   /\ \E c \in DOMAIN p.statements[k].adds :
                        p.statements[k].adds[c].name = rows[i][3]


RECURSIVE Count(_, _)
\* how many entries of the log are mark
Count(entries, mark) ==
  IF entries = <<>> THEN 0
  ELSE (IF Head(entries) = mark THEN 1 ELSE 0) + Count(Tail(entries), mark)

\* C14: in a call of run_system_catalog_as_temp_table the subtransaction is
\* entered at most once and open exactly between its entry and its one exit;
\* a call that entered it has left it once, with the catalog rolled back, when
\* it materializes, returns or raises; the statements of Materialize come after
\* the exit and only when everything in the scope, up to the caller's query,
\* was executed without an exception.
C14_ExitOnceThenMaterialize ==
  LET enters == Count(log, "subxact.enter")
      exits == Count(log, "subxact.exit")
  IN /\ enters <= 1
     /\ exits <= enters
     /\ (subxact # None) <=> (enters = 1 /\ exits = 0)
     /\ pc \in {"materialize", "returned", "raised"} => exits = enters
     /\ (pc = "materialize" /\ exits = 1) =>
          CatalogView(db) = CatalogView(Get(hist.call.db))
     /\ pc = "materialize" => frame.exc = None
     /\ (enters = 1 /\ (pc = "materialize" \/ Range(log) \cap MaterializeStatements # {})) =>
          /\ InScope = ApplyOrder
          /\ Range(LogUpTo(log, "subxact.exit")) \cap MaterializeStatements = {}
          /\ Range(LogFrom(log, "subxact.exit")) \subseteq MaterializeStatements

\* a call that entered the subtransaction, left it once and has materialized
\* its result
C14_Witness ==
  /\ pc = "returned"
  /\ Count(log, "subxact.exit") = 1
  /\ "create temporary table" \in Range(log)


\* C15: once a call has executed "set role" in the subtransaction, the role
\* it names, the login_user of the call, is the role the role-provisioning
\* statement and the grant statement of the call's statements name, and it is
\* the session's role while the scope is open after a switch that did not
\* raise; the call may have taken its statements from the schema cache.
C15_RoleSwitchedIsRoleProvisioned ==
  ("set role" \in Range(InScope) /\ pc \in {"query", "unwind"}) =>
    LET statements == Get(frame.statements)
    IN /\ \E k \in DOMAIN statements :
            /\ statements[k].op = "create role if absent"
            /\ statements[k].role = frame.login_user
       /\ \E k \in DOMAIN statements :
            /\ statements[k].op = "grant select"
            /\ statements[k].role = frame.login_user
       /\ frame.exc = None => db.role = frame.login_user


\* C16: once a call has executed the update of pg_database in the
\* subtransaction, the database name is the schema argument of the call (the
\* fourth component of its cache key) for as long as the scope is open,
\* whatever schemas were discovered and whether or not the statements came
\* from the schema cache.
C16_DatnameIsCallSchema ==
  ("update pg_database" \in Range(InScope) /\ pc \in {"query", "unwind"}) =>
    db.datname = CallKey[4]


\* the (schema, table) pairs of the rows that get a placeholder table
MirroredTables(rows) ==
  {<<rows[i][1], rows[i][2]>> : i \in {j \in DOMAIN rows :
     ~ TooLong(rows[j][1]) /\ ~ TooLong(rows[j][2]) /\ ~ IsSystemSchema(rows[j][1])}}

\* ascending order of (schema name, table name)
Before(t, u) ==
  Rank(t[1]) < Rank(u[1]) \/ (t[1] = u[1] /\ Rank(t[2]) < Rank(u[2]))

\* the place of a table among the mirrored ones, counted from 0
IndexOf(t, tables) == Cardinality({u \in tables : Before(u, t)})

\* the column names of one table that are within the limit, as they arrived
ColumnsOf(rows, t) ==
  LET mine == SelectSeq(rows, LAMBDA row : row[1] = t[1] /\ row[2] = t[2] /\ ~ TooLong(row[3]))
  IN [i \in DOMAIN mine |-> mine[i][3]]

\* the same rows in another order of arrival that keeps the order of the rows
\* of each table
Rearrangements(rows) ==
  {other \in [DOMAIN rows -> Range(rows)] :
     /\ Range(other) = Range(rows)
     /\ \A i, j \in DOMAIN rows :
          (i < j /\ rows[i][1] = rows[j][1] /\ rows[i][2] = rows[j][2]) =>
            \E a, b \in DOMAIN other : a < b /\ other[a] = rows[i] /\ other[b] = rows[j]}

\* C17: for every answer of discovery the plan holds, after the two role
\* statements, three consecutive statements for each table of a non-system
\* schema: the table that is k-th in ascending order of (schema name, table
\* name), counted from 0, has the move of table_holder_k into its schema, the
\* rename of table_holder_k to its name, and the ADD COLUMN statement with its
\* columns; the system schemas sys and information_schema take no index and
\* are not in schema_names, which is sorted; the same rows arriving in another
\* order across tables give the same plan.
C17_IndicesFollowSortedTables ==
  (harness.fn = "plan" /\ harness.output # None) =>
    LET rows == harness.rows
        p == Get(harness.output).plan
        tables == MirroredTables(rows)
        at(t) == 2 + 3 * IndexOf(t, tables)
    IN /\ Len(p.statements) = 2 + 3 * Cardinality(tables)
       /\ \A t \in tables :
            /\ p.statements[at(t) + 1] =
                 [op |-> "alter table set schema", table_holder_id |-> IndexOf(t, tables),
                  schema |-> t[1]]
            /\ p.statements[at(t) + 2] =
                 [op |-> "alter table rename", schema |-> t[1],
                  table_holder_id |-> IndexOf(t, tables), table |-> t[2]]
            /\ p.statements[at(t) + 3].op = "alter table add"
            /\ p.statements[at(t) + 3].schema = t[1]
            /\ p.statements[at(t) + 3].table = t[2]
            /\ [c \in DOMAIN p.statements[at(t) + 3].adds |->
                  p.statements[at(t) + 3].adds[c].name] = ColumnsOf(rows, t)
       /\ \A i \in DOMAIN p.schema_names : ~ IsSystemSchema(p.schema_names[i])
       /\ \A i, j \in DOMAIN p.schema_names :
            i < j => Rank(p.schema_names[i]) < Rank(p.schema_names[j])
       /\ \A other \in Rearrangements(rows) :
            /\ plan_catalog(other, "alice").statements = p.statements
            /\ plan_catalog(other, "alice").schema_names = p.schema_names

\* the table of schema sales arrived first, a table of the system schema sys
\* second and the table of schema hr last
C17_Witness ==
  /\ harness.fn = "plan"
  /\ harness.output # None
  /\ harness.rows = << <<"sales", "orders", "id", FALSE, "integer">>,
                       <<"sys", "items", "id", TRUE, "bigint">>,
                       <<"hr", "emp", "id", TRUE, "varchar">> >>


\* C18: in every execution of a load by _batch_insert the prepared statement
\* has as many value tuples as rows are bound to it, its placeholders are
\* numbered 1, 2, ..., rows * columns over the tuples in order and typed by the
\* column types, and its argument types are as many as its arguments; every
\* execution but the last has batch_size tuples, and the last one of a load
\* that did not raise has L mod batch_size tuples when that is not 0.
C18_StatementSizedToRows ==
  (harness.fn = "_batch_insert" /\ harness.output # None) =>
    LET executions == Get(harness.output).executions
        raised == Get(harness.output).raised
        L == Len(harness.rows)
        B == harness.batch_size
        C == Len(harness.column_types)
    IN \A n \in DOMAIN executions :
         LET plan == executions[n].plan
             args == executions[n].args
         IN /\ Len(plan.tuples) * C = Len(args)
            /\ Len(plan.argtypes) = Len(args)
            /\ \A k \in DOMAIN plan.tuples :
                 /\ Len(plan.tuples[k]) = C
                 /\ \A j \in 1..C :
                      /\ plan.tuples[k][j].index = (k - 1) * C + j
                      /\ plan.tuples[k][j].type = harness.column_types[j]
                      /\ plan.argtypes[(k - 1) * C + j] = harness.column_types[j]
            /\ Len(plan.tuples) =
                 IF n = Len(executions) /\ ~ raised /\ L % B # 0 THEN L % B ELSE B

\* a load of rows of two columns that ended with a shorter batch after a full
\* one
C18_Witness ==
  /\ harness.fn = "_batch_insert"
  /\ harness.output # None
  /\ ~ Get(harness.output).raised
  /\ Len(harness.column_types) = 2
  /\ Len(Get(harness.output).executions) >= 2
  /\ Len(harness.rows) % harness.batch_size = 1
  /\ harness.batch_size = MaxBatch


\* C19: over any sequence of calls of _load_oid_to_type_name_mapping, with
\* pg_type changing in between, every oid that was ever mapped is mapped, and
\* to the name it was first mapped to; the oids a call looks up in pg_type
\* are oids that were not mapped when the call began.
C19_MappingOnlyGrows ==
  harness.fn = "_load_oid_to_type_name_mapping" =>
    /\ DOMAIN OidToTypeNameMapping = DOMAIN harness.seen
    /\ \A oid \in DOMAIN harness.seen : OidToTypeNameMapping[oid] = harness.seen[oid]
    /\ harness.before \subseteq DOMAIN OidToTypeNameMapping
    /\ harness.looked_up \cap harness.before = {}

\* oid 13087 was mapped to "name" when its type was sql_identifier; the type
\* is now cardinal_number, which converts to "int", and a later call has asked
\* about the oid again
C19_Witness ==
  /\ harness.fn = "_load_oid_to_type_name_mapping"
  /\ 13087 \in Range(harness.oids)
  /\ 13087 \in harness.before
  /\ OidToTypeNameMapping[13087] = "name"
  /\ 13087 \in DOMAIN db.pg_type
  /\ _pg_convert_infoschema_type(db.pg_type[13087]) = "int"


\* C20: in a call that has entered the subtransaction, the dict the call
\* uses as query_cache holds an entry for the call's query text only from the
\* moment the caller's query and everything before it in the scope have been
\* executed without raising, and the entry is the result of that execution; a
\* call in which a statement of the scope raised has, when it is over, left
\* the query text without an entry, so that the lookup of a later call for
\* the same text misses.
C20_FailedCallStoresNothing ==
  ("subxact.enter" \in Range(log) /\ frame.query_cache # None) =>
    LET entry == Lookup(frame, SchemaCacheEntry)
        failed_in_scope == frame.exc # None /\ Range(log) \cap MaterializeStatements = {}
    IN /\ entry # None =>
            /\ InScope = ApplyOrder
            /\ frame.result # None
            /\ Get(entry).result = Get(frame.result)
            /\ ~ failed_in_scope
       /\ (pc \in {"unwind", "raised"} /\ failed_in_scope) =>
            /\ entry = None
            /\ ~ IsHit(entry)
            /\ frame.query \notin DOMAIN SchemaCacheEntry.query_cache

\* a call whose query raised after every statement before it had succeeded,
\* with the shared dict of a cached plan as its query_cache, has unwound
C20_Witness ==
  /\ pc = "raised"
  /\ frame.exc = Some("SPIError")
  /\ InScope = ApplyOrder
  /\ frame.query_cache # None
  /\ Get(frame.query_cache).shared
  /\ frame.result = None

====
